---- MODULE Spec2Model ----
(***************************************************************************)
(* A model of the geoscript-js adaptation layer: the Schema wrapper        *)
(* (lib/geoscript/feature/schema.js), the Shape symbolizer wrapper (the    *)
(* unnamed source part_001, cited below as shape.js), the factory registry *)
(* the Schema registers with, and the feature cursor exercised by the      *)
(* shapefile layer test (the unnamed source part_000).                     *)
(*                                                                         *)
(* JavaScript values are records tagged by `kind`.  Objects and arrays     *)
(* carry a `ref`, their identity: two values with equal contents and       *)
(* different refs are different objects.  A property an object does not    *)
(* have reads as Undefined (see Get).  Numbers are held in tenths, so 1    *)
(* is 10 and 0.5 is 5.                                                     *)
(***************************************************************************)
EXTENDS Integers, Sequences, FiniteSets, TLC

VARIABLES
    schema,     \* the Schema wrapper under study: its _schema handle
    op,         \* the last Schema operation: "none", "new", "config", "clone"
    arg,        \* the argument of the last Schema operation
    calls,      \* engine calls made by the last Schema operation, in order
    err,        \* the error the last Schema operation threw, or NoError
    ret,        \* the value the last Schema operation returned
    reads,      \* the configs read back since the first construction
    pc,         \* the caller's position
    cache,      \* the Shape wrapper's cache object
    made,       \* symbolizers the engine's style builder has created so far
    props,      \* the mark and graphic of the cached symbolizer
    sop,        \* the last Shape operation
    sarg,       \* its argument
    sret,       \* the value it returned
    serr,       \* the error it threw, or NoError
    streak,     \* _symbolizer reads in a row ending with the last operation
    ncall,      \* the normaliser last called: "prepConfig", "Shape" or "none"
    nin,        \* the caller's value as it was handed over
    nafter,     \* the caller's value once the normaliser has returned
    nout,       \* the value the normaliser produced
    registry,   \* the factory entries, in registration order
    fop,        \* the last registry operation
    fconfig,    \* the configuration last handed to create
    fchosen,    \* the position of the entry create chose, 0 when none
    ftype,      \* the type create instantiated
    ferr,       \* the error create threw, or NoError
    total,      \* the number of features of the layer
    cpos,       \* the features the cursor has handed out
    clog,       \* the calls forEach made to its block
    cscope,     \* the scope last given to forEach
    cop,        \* the last cursor operation
    cret,       \* the value it returned
    cerr,       \* the error it threw, or NoError
    cfresh,     \* nothing has been taken from the cursor yet
    cran,       \* forEach has returned on this cursor
    cfull       \* the last forEach began on a cursor nothing was taken from

schemaVars == <<schema, op, arg, calls, err, ret, reads, pc>>
shapeVars == <<cache, made, props, sop, sarg, sret, serr, streak>>
normVars == <<ncall, nin, nafter, nout>>
factoryVars == <<registry, fop, fconfig, fchosen, ftype, ferr>>
cursorVars == <<total, cpos, clog, cscope, cop, cret, cerr, cfresh, cran, cfull>>

vars == <<schemaVars, shapeVars, normVars, factoryVars, cursorVars>>

\* the variables of the other components
notSchema == <<shapeVars, normVars, factoryVars, cursorVars>>
notShape == <<schemaVars, normVars, factoryVars, cursorVars>>
notNorm == <<schemaVars, shapeVars, factoryVars, cursorVars>>
notFactory == <<schemaVars, shapeVars, normVars, cursorVars>>
notCursor == <<schemaVars, shapeVars, normVars, factoryVars>>

(***************************************************************************)
(* Bounds.                                                                 *)
(***************************************************************************)
MaxFields == 3      \* longest field list handed to the Schema constructor
MaxOverride == 2    \* longest override field list handed to clone
MaxHandles == 2     \* symbolizers the style builder is asked for in one run
MaxEntries == 3     \* factory entries registered in one run
MaxFeatures == 4    \* features of the layer a cursor runs over

(***************************************************************************)
(* JavaScript values.                                                      *)
(***************************************************************************)
Undefined == [kind |-> "undefined"]
JsString(s) == [kind |-> "string", text |-> s]
JsNumber(n) == [kind |-> "number", num |-> n]
JsArray(r, items) == [kind |-> "Array", ref |-> r, items |-> items]
\* an object that is not an Array and has a forEach method (a Java list,
\* an array-like collection)
JsArrayLike(r, items) == [kind |-> "ArrayLike", ref |-> r, items |-> items]
\* the object literal {}
EmptyObject(r) == [kind |-> "object", ref |-> r]

Meta == {"kind", "ref"}

\* o[k] in JavaScript: undefined when o has no such property
Get(o, k) == IF o.kind = "object" /\ k \in DOMAIN o THEN o[k] ELSE Undefined

\* ToBoolean
Truthy(v) ==
    CASE v.kind = "undefined" -> FALSE
      [] v.kind = "string" -> v.text # ""
      [] v.kind = "number" -> v.num # 0
      [] OTHER -> TRUE

\* v.forEach is truthy
HasForEach(v) == v.kind \in {"Array", "ArrayLike"}

\* v instanceof Array
InstanceofArray(v) == v.kind = "Array"

\* the identities reachable from a value, one level deep
RefsOf(v) ==
    (IF "ref" \in DOMAIN v THEN {v.ref} ELSE {})
    \cup (IF v.kind = "object" /\ "fields" \in DOMAIN v /\ "ref" \in DOMAIN v.fields
          THEN {v.fields.ref} ELSE {})

SetMax(S) == CHOOSE m \in S : \A x \in S : x <= m

\* the identity of an object allocated while v is live
NewRef(v) == SetMax(RefsOf(v) \cup {0}) + 1

(***************************************************************************)
(* UTIL.apply(target, source): copy the source's own enumerable properties *)
(* onto the target and return the target.                                  *)
(***************************************************************************)
Apply(target, source) ==
    IF source.kind = "object"
    THEN [k \in DOMAIN target \cup DOMAIN source |->
            IF k \in DOMAIN source \ Meta THEN source[k] ELSE target[k]]
    ELSE target

(***************************************************************************)
(* prepConfig, schema.js 18-25.                                            *)
(***************************************************************************)
\* a normaliser that defaults the caller's object in place
prepConfigInPlace(config) ==
    IF InstanceofArray(config)
    THEN [kind |-> "object", ref |-> NewRef(config), fields |-> config]
    ELSE IF config.kind = "object" THEN config
    ELSE Apply(EmptyObject(NewRef(config)), config)

prepConfig(config) ==
    IF InstanceofArray(config)
    THEN [kind |-> "object", ref |-> NewRef(config), fields |-> config]
    ELSE Apply(EmptyObject(NewRef(config)), config)

(***************************************************************************)
(* Fields.  A field definition is a name, a type and, for a geometry type, *)
(* an optional projection.  A field handed to the constructor is either a  *)
(* plain configuration object or a Field instance (wrapped).               *)
(***************************************************************************)
FieldNames == {"a", "b", "c", "toString"}

\* the keys every object literal inherits from Object.prototype
ObjectPrototypeKeys ==
    {"constructor", "toString", "toLocaleString", "valueOf",
     "hasOwnProperty", "isPrototypeOf", "propertyIsEnumerable"}

NoProjection == "none"

FieldShapes ==
    { [type |-> "String", projection |-> NoProjection],
      [type |-> "Point", projection |-> NoProjection],
      [type |-> "Point", projection |-> "EPSG:4326"] }

\* the keys of GEOM that name geometry types
GeometryTypes == {"Point", "LineString", "Polygon"}

FieldInput(w, n, s) ==
    [wrapped |-> w, name |-> n, type |-> s.type, projection |-> s.projection]

PlainFields == {FieldInput(FALSE, n, s) : n \in FieldNames, s \in FieldShapes}
WrappedFields == {FieldInput(TRUE, n, s) : n \in FieldNames, s \in FieldShapes}

\* new Field(config)._field, or field._field of a Field instance
FieldNew(f) == [name |-> f.name, type |-> f.type, projection |-> f.projection]

\* Field.from_(descriptor).config
FieldConfig(d) ==
    [wrapped |-> FALSE, name |-> d.name, type |-> d.type, projection |-> d.projection]

DistinctNames(s) == \A i, j \in 1..Len(s) : i # j => s[i].name # s[j].name

SeqsUpTo(S, n) == UNION {[1..k -> S] : k \in 0..n}

(***************************************************************************)
(* The Schema wrapper, schema.js 27-195.  Its _schema handle is the        *)
(* engine's feature type: a local name and the attribute descriptors in    *)
(* the order the builder received them.                                    *)
(***************************************************************************)
NoError == "none"
FieldsError == "Construct schema with a fields array."
TypeError == "TypeError"

\* new Schema() with no configuration: _schema is not set
Shell == [built |-> FALSE]

FeatureType(name, attrs) == [built |-> TRUE, name |-> name, attrs |-> attrs]

\* the engine calls of one pass of the forEach body, schema.js 43-54
FieldCalls(f) ==
    (IF f.type \in GeometryTypes /\ f.projection # NoProjection
     THEN <<"setCRS">> ELSE <<>>) \o <<"add">>

RECURSIVE BuilderCalls(_)
BuilderCalls(items) ==
    IF items = <<>> THEN <<>>
    ELSE FieldCalls(FieldNew(Head(items))) \o BuilderCalls(Tail(items))

\* the descriptors the builder holds after the forEach, schema.js 43-54
Descriptors(items) == [i \in 1..Len(items) |-> FieldNew(items[i])]

\* a constructor that sets the builder up before it looks at the fields
SchemaNewBuildFirst(config) ==
    IF ~Truthy(config) THEN [err |-> NoError, calls |-> <<>>, schema |-> Shell]
    ELSE LET c == prepConfig(config)
             fields == Get(c, "fields")
             name == Get(c, "name")
             head == <<"new SimpleFeatureTypeBuilder", "setName">>
         IN  IF ~Truthy(fields) \/ ~HasForEach(fields)
             THEN [err |-> FieldsError, calls |-> head, schema |-> Shell]
             ELSE [err |-> NoError,
                   calls |-> head \o BuilderCalls(fields.items)
                                  \o <<"buildFeatureType">>,
                   schema |-> FeatureType(
                       IF Truthy(name) THEN name.text ELSE "feature",
                       Descriptors(fields.items))]

\* constructor, schema.js 34-57: the error thrown, the engine calls made and
\* the wrapper's _schema
SchemaNew(config) ==
    IF ~Truthy(config) THEN [err |-> NoError, calls |-> <<>>, schema |-> Shell]
    ELSE LET c == prepConfig(config)
             fields == Get(c, "fields")
             name == Get(c, "name")
         IN  IF ~Truthy(fields) \/ ~HasForEach(fields)
             THEN [err |-> FieldsError, calls |-> <<>>, schema |-> Shell]
             ELSE [err |-> NoError,
                   calls |-> <<"new SimpleFeatureTypeBuilder", "setName">>
                             \o BuilderCalls(fields.items)
                             \o <<"buildFeatureType">>,
                   schema |-> FeatureType(
                       IF Truthy(name) THEN name.text ELSE "feature",
                       Descriptors(fields.items))]

\* get name, schema.js 106-108
SchemaName(s) == s.name

\* Field.from_(descriptor): a Field instance around an engine descriptor
FieldFrom(d) ==
    [wrapped |-> TRUE, name |-> d.name, type |-> d.type, projection |-> d.projection]

Reverse(s) == [i \in 1..Len(s) |-> s[Len(s) + 1 - i]]

\* a fields getter that hands the descriptors back last first
SchemaFieldsReversed(s) == Reverse([i \in 1..Len(s.attrs) |-> FieldFrom(s.attrs[i])])

\* get fields, schema.js 135-140
SchemaFields(s) == [i \in 1..Len(s.attrs) |-> FieldFrom(s.attrs[i])]

\* get config, schema.js 179-185; the object and its fields array are new
SchemaConfig(s) ==
    LET fields == SchemaFields(s)
    IN  [kind |-> "object", ref |-> 1, type |-> "Schema",
         name |-> JsString(SchemaName(s)),
         fields |-> JsArray(2, [i \in 1..Len(fields) |-> FieldConfig(FieldNew(fields[i]))])]

(***************************************************************************)
(* clone, schema.js 65-97.                                                 *)
(***************************************************************************)
\* field.name in existing, where existing is an object literal keyed by the
\* names of this.fields: true of those names and of every inherited key
InExisting(name, fields) ==
    name \in {fields[i].name : i \in 1..Len(fields)} \cup ObjectPrototypeKeys

\* first pass, schema.js 70-84
ReplaceExisting(fields, configFields) ==
    [i \in 1..Len(fields) |->
        LET hits == {j \in 1..Len(configFields) : configFields[j].name = fields[i].name}
        IN  IF hits = {} THEN fields[i]
            ELSE configFields[CHOOSE j \in hits : \A k \in hits : j <= k]]

\* second pass, schema.js 86-90
NewFields(fields, configFields) ==
    SelectSeq(configFields, LAMBDA f : ~InExisting(f.name, fields))

\* the configuration handed to new Schema, schema.js 66-95
CloneConfig(s, config) ==
    LET given == IF Truthy(config) /\ Truthy(Get(config, "fields"))
                 THEN Get(config, "fields").items ELSE <<>>
        fields == SchemaFields(s)
        merged == ReplaceExisting(fields, given) \o NewFields(fields, given)
        name == IF Truthy(config) /\ Truthy(Get(config, "name"))
                THEN Get(config, "name") ELSE JsString(SchemaName(s))
    IN  [kind |-> "object", ref |-> 3, name |-> name, fields |-> JsArray(4, merged)]

SchemaClone(s, config) == SchemaNew(CloneConfig(s, config))

(***************************************************************************)
(* The Shape symbolizer wrapper, style/shape.js.  Numbers are in tenths.   *)
(***************************************************************************)
One == 10

Expr(v) == [kind |-> "Expression", value |-> v]

\* typeof
TypeOf(v) ==
    IF v.kind \in {"undefined", "string", "number", "boolean"} THEN v.kind
    ELSE "object"

EmptyCache == [k \in {} |-> 0]
Put(c, k, v) == [j \in DOMAIN c \cup {k} |-> IF j = k THEN v ELSE c[j]]

\* the mark and graphic of a symbolizer fresh from createPointSymbolizer
EngineDefaults ==
    [name |-> "square", size |-> 60, opacity |-> One, rotation |-> 0,
     fill |-> "#808080", stroke |-> "#000000"]

ShapeState(c, m, p) == [cache |-> c, made |-> m, props |-> p]

\* a getter that asks the builder for a symbolizer on every read
SymbolizerGetAlways(w) ==
    [w EXCEPT !.cache = Put(w.cache, "_symbolizer", w.made + 1),
              !.made = w.made + 1,
              !.props = EngineDefaults]

\* get _symbolizer, shape.js 34-39, with set _symbolizer, 40-42: the wrapper
\* after the read; the value read is its cache._symbolizer
SymbolizerGet(w) ==
    IF "_symbolizer" \notin DOMAIN w.cache
    THEN [w EXCEPT !.cache = Put(w.cache, "_symbolizer", w.made + 1),
                   !.made = w.made + 1,
                   !.props = EngineDefaults]
    ELSE w

\* set _symbolizer, shape.js 40-42: h is a symbolizer the caller holds, the
\* cached one or one fresh from the builder
SymbolizerSet(w, h) ==
    IF "_symbolizer" \in DOMAIN w.cache /\ w.cache["_symbolizer"] = h
    THEN w
    ELSE [w EXCEPT !.cache = Put(w.cache, "_symbolizer", h),
                   !.made = IF h > w.made THEN h ELSE w.made,
                   !.props = EngineDefaults]

\* a _mark getter that drops the cached symbolizer first
MarkGetFresh(w) == SymbolizerGetAlways(w)

\* get _mark, shape.js 44-46, and get _graphic, 47-49
MarkGet(w) == SymbolizerGet(w)
GraphicGet(w) == SymbolizerGet(w)

\* new Expression(config) for a value that is no Expression: throws unless
\* the configuration carries the expression's text
ExpressionNew(v) ==
    IF v.kind = "object" /\ "text" \in DOMAIN v
    THEN [err |-> NoError, value |-> v.text]
    ELSE IF v.kind \in {"number", "string"}
    THEN [err |-> NoError, value |-> IF v.kind = "number" THEN v.num ELSE v.text]
    ELSE [err |-> "Expression config", value |-> 0]

RangeMessage == "Opacity must be a number between 0 and 1 (inclusive)"
OpacityTypeMessage == "Shape opacity cannot be type: "
OpacityKindMessage == "Shape opacity must be a number or an expression"
RotationTypeMessage == "Shape rotation cannot be type: "
RotationKindMessage == "Shape rotation must be a number or an expression"

\* an opacity check that has lost its upper limit
OpacityExpressionNoUpper(v) ==
    IF TypeOf(v) = "number"
    THEN IF v.num < 0
         THEN [err |-> RangeMessage, value |-> 0]
         ELSE [err |-> NoError, value |-> v.num]
    ELSE IF TypeOf(v) # "object"
    THEN [err |-> OpacityTypeMessage, value |-> 0]
    ELSE IF v.kind # "Expression"
    THEN IF ExpressionNew(v).err # NoError
         THEN [err |-> OpacityKindMessage, value |-> 0]
         ELSE [err |-> NoError, value |-> ExpressionNew(v).value]
    ELSE [err |-> NoError, value |-> v.value]

\* set opacity, shape.js 94-108: the error thrown, or the expression that
\* will be written
OpacityExpression(v) ==
    IF TypeOf(v) = "number"
    THEN IF v.num < 0 \/ v.num > One
         THEN [err |-> RangeMessage, value |-> 0]
         ELSE [err |-> NoError, value |-> v.num]
    ELSE IF TypeOf(v) # "object"
    THEN [err |-> OpacityTypeMessage, value |-> 0]
    ELSE IF v.kind # "Expression"
    THEN IF ExpressionNew(v).err # NoError
         THEN [err |-> OpacityKindMessage, value |-> 0]
         ELSE [err |-> NoError, value |-> ExpressionNew(v).value]
    ELSE [err |-> NoError, value |-> v.value]

\* set rotation, shape.js 120-131
RotationExpression(v) ==
    IF TypeOf(v) = "number"
    THEN [err |-> NoError, value |-> v.num]
    ELSE IF TypeOf(v) # "object"
    THEN [err |-> RotationTypeMessage, value |-> 0]
    ELSE IF v.kind # "Expression"
    THEN IF ExpressionNew(v).err # NoError
         THEN [err |-> RotationKindMessage, value |-> 0]
         ELSE [err |-> NoError, value |-> ExpressionNew(v).value]
    ELSE [err |-> NoError, value |-> v.value]

\* set name, shape.js 60-66, and set size, 80-84: neither checks its value
PlainExpression(v) ==
    IF v.kind = "Expression" THEN [err |-> NoError, value |-> v.value]
    ELSE IF v.kind = "string" THEN [err |-> NoError, value |-> v.text]
    ELSE ExpressionNew(v)

\* set fill, shape.js 143-148, and set stroke, 153-158: a string is a colour
ColourOf(v) == [err |-> NoError, value |-> v.text]

MarkKeys == {"name", "size", "fill", "stroke"}

\* what setter k makes of value v
Adapted(k, v) ==
    CASE k = "opacity" -> OpacityExpression(v)
      [] k = "rotation" -> RotationExpression(v)
      [] k \in {"name", "size"} -> PlainExpression(v)
      [] OTHER -> ColourOf(v)

\* a property setter, shape.js 60-158: the value is adapted first, then
\* written through _mark or _graphic; a throw leaves the wrapper as it was
ShapeSet(w, k, v) ==
    LET e == Adapted(k, v)
        t == IF k \in MarkKeys THEN MarkGet(w) ELSE GraphicGet(w)
    IN  IF e.err # NoError
        THEN [err |-> e.err, w |-> w]
        ELSE [err |-> NoError, w |-> [t EXCEPT !.props[k] = e.value]]

\* a property getter, shape.js 68-161: the wrapper after the read and the
\* value read
ShapeGet(w, k) ==
    LET t == IF k \in MarkKeys THEN MarkGet(w) ELSE GraphicGet(w)
    IN  [w |-> t,
         value |-> IF k \in {"fill", "stroke"}
                   THEN JsString(t.props[k]) ELSE Expr(t.props[k])]

\* the .config of the value getter k returned
ValueConfig(k, v) ==
    IF k = "name" THEN JsString(v.value)
    ELSE IF k \in {"fill", "stroke"} THEN v
    ELSE JsNumber(v.value)

ConfigKeys == <<"name", "size", "opacity", "rotation", "fill", "stroke">>

\* get config, shape.js 163-173: the six getters in turn
RECURSIVE ReadAll(_, _, _)
ReadAll(w, i, acc) ==
    IF i > Len(ConfigKeys) THEN [w |-> w, value |-> acc]
    ELSE LET g == ShapeGet(w, ConfigKeys[i])
         IN  ReadAll(g.w, i + 1, Put(acc, ConfigKeys[i], ValueConfig(ConfigKeys[i], g.value)))

ShapeConfig(w) ==
    ReadAll(w, 1, [kind |-> "object", ref |-> 1, type |-> "Shape"])

\* the Shape constructor's own step, shape.js 26-30: the value handed on to
\* the Symbolizer constructor
ShapeNormalise(config) ==
    IF Truthy(config) /\ TypeOf(config) = "string"
    THEN [kind |-> "object", ref |-> NewRef(config), name |-> config]
    ELSE config

\* Symbolizer constructor: a wrapper with an empty cache, then each property
\* of the configuration assigned through its setter, in ConfigKeys order
RECURSIVE ApplyConfig(_, _, _)
ApplyConfig(w, config, i) ==
    IF i > Len(ConfigKeys) THEN [err |-> NoError, w |-> w]
    ELSE IF ConfigKeys[i] \notin DOMAIN config
    THEN ApplyConfig(w, config, i + 1)
    ELSE LET r == ShapeSet(w, ConfigKeys[i], config[ConfigKeys[i]])
         IN  IF r.err # NoError THEN r ELSE ApplyConfig(r.w, config, i + 1)

SymbolizerNew(config, m) ==
    LET w == ShapeState(EmptyCache, m, EngineDefaults)
    IN  IF Truthy(config) /\ config.kind = "object"
        THEN ApplyConfig(w, config, 1)
        ELSE [err |-> NoError, w |-> w]

\* constructor, shape.js 25-32, with m symbolizers made so far
ShapeNew(config, m) == SymbolizerNew(ShapeNormalise(config), m)

\* clone, shape.js 175-177: this wrapper after its config was read, and the
\* new wrapper
ShapeClone(w) ==
    LET c == ShapeConfig(w)
        n == ShapeNew(c.value, c.w.made)
    IN  [w |-> [c.w EXCEPT !.made = n.w.made], err |-> n.err, clone |-> n.w]

(***************************************************************************)
(* A caller working on one Shape wrapper.                                  *)
(***************************************************************************)
JsBoolean(b) == [kind |-> "boolean", bool |-> b]

\* numbers in tenths: -1, -0.1, 0, 0.5, 1, 1.1, 1.5
Numbers == {-10, -1, 0, 5, 10, 11, 15}

OpacityInputs ==
    {JsNumber(n) : n \in Numbers}
    \cup {Undefined, JsString("0.5"), JsBoolean(TRUE), Expr(5), Expr(15),
          EmptyObject(1), [kind |-> "object", ref |-> 1, text |-> 5]}

RotationInputs == {JsNumber(0), JsNumber(450), JsString("45"), EmptyObject(1)}

SetterInputs(k) ==
    CASE k = "opacity" -> OpacityInputs
      [] k = "rotation" -> RotationInputs
      [] k = "name" -> {JsString("circle"), Expr("circle")}
      [] k = "size" -> {JsNumber(100), Expr(100)}
      [] OTHER -> {JsString("#ff0000")}

PropertyKeys == {ConfigKeys[i] : i \in 1..Len(ConfigKeys)}

ShapeConfigs ==
    {Undefined, JsString("circle"),
     [kind |-> "object", ref |-> 1, name |-> JsString("circle")],
     [kind |-> "object", ref |-> 1, opacity |-> JsNumber(5)],
     [kind |-> "object", ref |-> 1, opacity |-> JsNumber(15)],
     [kind |-> "object", ref |-> 1, name |-> JsString("circle"), opacity |-> JsNumber(15)]}

Wrapper == ShapeState(cache, made, props)

HasSymbolizer(c) == "_symbolizer" \in DOMAIN c

\* the state an operation leaves: the wrapper w, the operation's name,
\* argument, result and error
ShapeStep(w, name, a, r, e) ==
    /\ w.made <= MaxHandles
    /\ cache' = w.cache
    /\ made' = w.made
    /\ props' = w.props
    /\ sop' = name
    /\ sarg' = a
    /\ sret' = r
    /\ serr' = e
    /\ streak' = IF name = "_symbolizer" THEN (IF streak < 2 THEN streak + 1 ELSE 2)
                 ELSE 0
    /\ UNCHANGED notShape

ShapeIdle ==
    /\ cache = EmptyCache
    /\ made = 0
    /\ props = EngineDefaults
    /\ sop = "none"
    /\ sarg = Undefined
    /\ sret = Undefined
    /\ serr = NoError
    /\ streak = 0

SchemaIdle ==
    /\ schema = Shell
    /\ op = "none"
    /\ arg = Undefined
    /\ calls = <<>>
    /\ err = NoError
    /\ ret = Undefined
    /\ reads = <<>>
    /\ pc = "idle"

NormIdle ==
    /\ ncall = "none"
    /\ nin = Undefined
    /\ nafter = Undefined
    /\ nout = Undefined

FactoryIdle ==
    /\ registry = <<>>
    /\ fop = "none"
    /\ fconfig = Undefined
    /\ fchosen = 0
    /\ ftype = "none"
    /\ ferr = NoError

CursorIdle ==
    /\ total = 0
    /\ cpos = 0
    /\ clog = <<>>
    /\ cscope = "none"
    /\ cop = "none"
    /\ cret = Undefined
    /\ cerr = NoError
    /\ cfresh = TRUE
    /\ cran = FALSE
    /\ cfull = FALSE

\* new Shape() has run
ShapeInit ==
    /\ cache = EmptyCache
    /\ made = 0
    /\ props = EngineDefaults
    /\ sop = "new"
    /\ sarg = Undefined
    /\ sret = Undefined
    /\ serr = NoError
    /\ streak = 0
    /\ SchemaIdle /\ NormIdle /\ FactoryIdle /\ CursorIdle

\* new Shape(config) takes the place of the wrapper; when the constructor
\* throws, the caller keeps the wrapper it had
ShapeConstruct ==
    \E config \in ShapeConfigs :
        LET r == ShapeNew(config, made)
        IN  IF r.err = NoError
            THEN ShapeStep(r.w, "new", config, Undefined, NoError)
            ELSE ShapeStep([Wrapper EXCEPT !.made = r.w.made], "new", config,
                           Undefined, r.err)

\* shape._symbolizer
ReadSymbolizer ==
    LET w == SymbolizerGet(Wrapper)
    IN  ShapeStep(w, "_symbolizer", Undefined, w.cache["_symbolizer"], NoError)

\* shape._mark
ReadMark ==
    LET w == MarkGet(Wrapper)
    IN  ShapeStep(w, "_mark", Undefined, <<"mark", w.cache["_symbolizer"]>>, NoError)

\* shape._graphic
ReadGraphic ==
    LET w == GraphicGet(Wrapper)
    IN  ShapeStep(w, "_graphic", Undefined, <<"graphic", w.cache["_symbolizer"]>>, NoError)

\* shape._symbolizer = h
AssignSymbolizer ==
    \E h \in {made + 1} \cup {cache[k] : k \in DOMAIN cache} :
        ShapeStep(SymbolizerSet(Wrapper, h), "set _symbolizer", h, Undefined, NoError)

\* shape[k] = v
SetProperty ==
    \E k \in PropertyKeys : \E v \in SetterInputs(k) :
        LET r == ShapeSet(Wrapper, k, v)
        IN  ShapeStep(r.w, "set " \o k, v, Undefined, r.err)

\* shape[k]
GetProperty ==
    \E k \in PropertyKeys :
        LET r == ShapeGet(Wrapper, k)
        IN  ShapeStep(r.w, "get " \o k, Undefined, r.value, NoError)

\* shape.config
ReadShapeConfig ==
    LET r == ShapeConfig(Wrapper)
    IN  ShapeStep(r.w, "config", Undefined, r.value, NoError)

\* shape.clone()
CloneShape ==
    LET r == ShapeClone(Wrapper)
    IN  ShapeStep(r.w, "clone", Undefined, r.clone.cache, r.err)

ShapeNext ==
    \/ ShapeConstruct
    \/ ReadSymbolizer
    \/ ReadMark
    \/ ReadGraphic
    \/ AssignSymbolizer
    \/ SetProperty
    \/ GetProperty
    \/ ReadShapeConfig
    \/ CloneShape

ShapeSpec == ShapeInit /\ [][ShapeNext]_vars

(***************************************************************************)
(* The configurations a caller hands to the Schema constructor and to      *)
(* clone.  The caller's object has identity 1 and its fields value 2.      *)
(***************************************************************************)
PlainSeqs(n) == {s \in SeqsUpTo(PlainFields, n) : DistinctNames(s)}

\* a field list is made of plain configurations or of Field instances
FieldSeqs(n) ==
    PlainSeqs(n) \cup {[i \in 1..Len(s) |-> FieldFrom(s[i])] : s \in PlainSeqs(n)}

ConfigNames == {JsString(""), JsString("cities")}

\* fields values the constructor accepts
GoodFieldsValues ==
    {JsArray(2, s) : s \in FieldSeqs(MaxFields)}
    \cup {JsArrayLike(2, s) : s \in FieldSeqs(MaxFields)}

\* fields values it rejects: falsy ones, and truthy ones without forEach
BadFieldsValues ==
    {Undefined, JsNumber(0), JsNumber(7), JsString(""), JsString("a,b"), EmptyObject(2)}

ObjectConfigs(fieldsValues) ==
    {[kind |-> "object", ref |-> 1]}
    \cup {[kind |-> "object", ref |-> 1, name |-> n] : n \in ConfigNames}
    \cup {[kind |-> "object", ref |-> 1, fields |-> f] : f \in fieldsValues}
    \cup {[kind |-> "object", ref |-> 1, name |-> n, fields |-> f] :
            n \in ConfigNames, f \in fieldsValues}

SchemaConfigs ==
    {Undefined, JsNumber(0), JsNumber(7), JsString(""), JsString("cities")}
    \cup {JsArray(1, s) : s \in FieldSeqs(MaxFields)}
    \cup ObjectConfigs(GoodFieldsValues \cup BadFieldsValues)

Overrides ==
    {Undefined}
    \cup {[kind |-> "object", ref |-> 1]}
    \cup {[kind |-> "object", ref |-> 1, name |-> JsString("roads")]}
    \cup {[kind |-> "object", ref |-> 1, fields |-> JsArray(2, s)] :
            s \in PlainSeqs(MaxOverride)}
    \cup {[kind |-> "object", ref |-> 1, name |-> JsString("roads"),
           fields |-> JsArray(2, s)] : s \in PlainSeqs(MaxOverride)}

(***************************************************************************)
(* The Schema life cycle: construct, read config, construct again from     *)
(* the config read, read config again.                                     *)
(***************************************************************************)
Init ==
    /\ schema = Shell
    /\ op = "none"
    /\ arg = Undefined
    /\ calls = <<>>
    /\ err = NoError
    /\ ret = Undefined
    /\ reads = <<>>
    /\ pc = "start"
    /\ ShapeIdle /\ NormIdle /\ FactoryIdle /\ CursorIdle

\* new Schema(config)
Construct ==
    /\ pc = "start"
    /\ op' = "new"
    /\ \E config \in SchemaConfigs :
        LET r == SchemaNew(config)
        IN  /\ arg' = config
            /\ calls' = r.calls
            /\ err' = r.err
            /\ schema' = r.schema
            /\ pc' = IF r.err # NoError THEN "failed"
                     ELSE IF r.schema.built THEN "built" ELSE "shell"
    /\ UNCHANGED <<ret, reads, notSchema>>

\* schema.config
ReadConfig ==
    /\ pc \in {"built", "rebuilt", "shell"}
    /\ op' = "config"
    /\ arg' = Undefined
    /\ calls' = <<>>
    /\ IF schema.built
       THEN /\ ret' = SchemaConfig(schema)
            /\ reads' = Append(reads, SchemaConfig(schema))
            /\ err' = NoError
            /\ pc' = IF pc = "built" THEN "read" ELSE "reread"
       ELSE \* this._schema is undefined
            /\ ret' = Undefined
            /\ reads' = reads
            /\ err' = TypeError
            /\ pc' = "failed"
    /\ UNCHANGED <<schema, notSchema>>

\* new Schema(config) on the config just read
Rebuild ==
    /\ pc = "read"
    /\ op' = "new"
    /\ LET r == SchemaNew(reads[1])
       IN  /\ arg' = reads[1]
           /\ calls' = r.calls
           /\ err' = r.err
           /\ schema' = r.schema
           /\ pc' = IF r.err # NoError THEN "failed" ELSE "rebuilt"
    /\ UNCHANGED <<ret, reads, notSchema>>

Next == Construct \/ ReadConfig \/ Rebuild

Spec == Init /\ [][Next]_vars

(***************************************************************************)
(* Cloning a constructed schema.                                           *)
(***************************************************************************)
CloneInit ==
    /\ schema \in {SchemaNew(JsArray(1, s)).schema : s \in PlainSeqs(MaxFields)}
    /\ op = "new"
    /\ arg = Undefined
    /\ calls = <<>>
    /\ err = NoError
    /\ ret = Undefined
    /\ reads = <<>>
    /\ pc = "built"
    /\ ShapeIdle /\ NormIdle /\ FactoryIdle /\ CursorIdle

\* schema.clone(config); ret is the clone's _schema
Clone ==
    /\ pc = "built"
    /\ op' = "clone"
    /\ \E config \in Overrides :
        LET r == SchemaClone(schema, config)
        IN  /\ arg' = config
            /\ calls' = r.calls
            /\ err' = r.err
            /\ ret' = r.schema
    /\ pc' = "cloned"
    /\ UNCHANGED <<schema, reads, notSchema>>

CloneNext == Clone

CloneSpec == CloneInit /\ [][CloneNext]_vars

(***************************************************************************)
(* The two normalisers, each applied to a value the caller holds.          *)
(***************************************************************************)
NormInputs ==
    {Undefined, JsNumber(0), JsNumber(7), JsString(""), JsString("cities")}
    \cup {JsArray(1, s) : s \in PlainSeqs(MaxFields)}
    \cup ObjectConfigs(BadFieldsValues \cup {JsArray(2, s) : s \in PlainSeqs(MaxOverride)})
    \cup ShapeConfigs

\* the caller's value after a call that returned out: the normalisers write
\* only to the object they return
CallerAfter(config, out) ==
    IF "ref" \in DOMAIN config /\ "ref" \in DOMAIN out /\ out.ref = config.ref
    THEN out ELSE config

NormInit ==
    /\ ncall = "none"
    /\ nin \in NormInputs
    /\ nafter = nin
    /\ nout = Undefined
    /\ SchemaIdle /\ ShapeIdle /\ FactoryIdle /\ CursorIdle

\* prepConfig(config)
PrepConfigCall ==
    /\ ncall = "none"
    /\ ncall' = "prepConfig"
    /\ nout' = prepConfig(nin)
    /\ nafter' = CallerAfter(nin, prepConfig(nin))
    /\ UNCHANGED <<nin, notNorm>>

\* the Shape constructor up to its call of the Symbolizer constructor
ShapeNormaliseCall ==
    /\ ncall = "none"
    /\ ncall' = "Shape"
    /\ nout' = ShapeNormalise(nin)
    /\ nafter' = CallerAfter(nin, ShapeNormalise(nin))
    /\ UNCHANGED <<nin, notNorm>>

NormNext == PrepConfigCall \/ ShapeNormaliseCall

NormSpec == NormInit /\ [][NormNext]_vars

(***************************************************************************)
(* The factory registry: register appends an entry, create instantiates    *)
(* the type of the first entry whose handles accepts the configuration.    *)
(***************************************************************************)
NoMatchingFactory == "NoMatchingFactory"

\* a predicate that takes any truthy fields value for a field list
SchemaHandlesTruthy(config) == Truthy(Get(prepConfig(config), "fields"))

\* the handles of the Schema factory, schema.js 213-216
SchemaHandles(config) == InstanceofArray(Get(prepConfig(config), "fields"))

\* the entry schema.js registers, and entries of other modules whose
\* predicates overlap with it
SchemaEntry == [type |-> "Schema", handles |-> "schema"]

Entries ==
    {SchemaEntry,
     [type |-> "Listing", handles |-> "fields"],
     [type |-> "Named", handles |-> "name"],
     [type |-> "Anything", handles |-> "any"]}

\* entry.handles(config)
EntryHandles(e, config) ==
    CASE e.handles = "schema" -> SchemaHandles(config)
      [] e.handles = "fields" -> "fields" \in DOMAIN prepConfig(config)
      [] e.handles = "name" -> Truthy(Get(prepConfig(config), "name"))
      [] OTHER -> TRUE

Matching(reg, config) == {i \in 1..Len(reg) : EntryHandles(reg[i], config)}

\* a scan that keeps the last entry that accepts
DispatchLast(reg, config) ==
    LET hits == Matching(reg, config)
    IN  IF hits = {} THEN 0 ELSE CHOOSE i \in hits : \A j \in hits : j <= i

\* the scan of create: the position of the first entry that accepts, or 0
Dispatch(reg, config) ==
    LET hits == Matching(reg, config)
    IN  IF hits = {} THEN 0 ELSE CHOOSE i \in hits : \A j \in hits : i <= j

\* a field list of one plain field
OneField == <<FieldInput(FALSE, "a", [type |-> "String", projection |-> NoProjection])>>

FactoryConfigs ==
    {Undefined, JsString("cities"), JsArray(1, <<>>), JsArray(1, OneField),
     [kind |-> "object", ref |-> 1],
     [kind |-> "object", ref |-> 1, name |-> JsString("cities")],
     [kind |-> "object", ref |-> 1, name |-> JsString("cities"),
      fields |-> JsArray(2, OneField)],
     [kind |-> "object", ref |-> 1, name |-> JsString("cities"),
      fields |-> JsString("a,b")]}
    \cup {[kind |-> "object", ref |-> 1, fields |-> f] :
            f \in {Undefined, JsNumber(0), JsString("a,b"), EmptyObject(2),
                   JsArray(2, <<>>), JsArray(2, OneField), JsArrayLike(2, OneField)}}

FactoryInit ==
    /\ registry = <<>>
    /\ fop = "none"
    /\ fconfig = Undefined
    /\ fchosen = 0
    /\ ftype = "none"
    /\ ferr = NoError
    /\ SchemaIdle /\ ShapeIdle /\ NormIdle /\ CursorIdle

\* register(entry)
Register ==
    /\ Len(registry) < MaxEntries
    /\ \E e \in Entries : registry' = Append(registry, e)
    /\ fop' = "register"
    /\ UNCHANGED <<fconfig, fchosen, ftype, ferr, notFactory>>

\* create(config): new entry.type(config) of the entry chosen; a Schema is
\* built by its constructor
Create ==
    \E config \in FactoryConfigs :
        LET i == Dispatch(registry, config)
        IN  /\ fop' = "create"
            /\ fconfig' = config
            /\ fchosen' = i
            /\ ftype' = IF i = 0 THEN "none" ELSE registry[i].type
            /\ ferr' = IF i = 0 THEN NoMatchingFactory
                       ELSE IF registry[i].type = "Schema" THEN SchemaNew(config).err
                       ELSE NoError
            /\ UNCHANGED <<registry, notFactory>>

FactoryNext == Register \/ Create

FactorySpec == FactoryInit /\ [][FactoryNext]_vars

(***************************************************************************)
(* The cursor layer.features() returns, as the shapefile layer test uses   *)
(* it.                                                                     *)
(***************************************************************************)
StopIteration == "StopIteration"
Scopes == {"testScope", "otherScope"}

Feature(i) == [kind |-> "Feature", id |-> i]

\* cursor.hasNext()
HasNext(pos, n) == pos < n

\* a forEach that stops one feature short
BlockCallsShort(pos, n, scope) ==
    [i \in 1..(IF n - pos > 0 THEN n - pos - 1 ELSE 0) |->
        [args |-> <<Feature(pos + i)>>, scope |-> scope]]

\* cursor.forEach(block, scope): the calls made to block, one for each
\* feature not yet handed out
BlockCalls(pos, n, scope) ==
    [i \in 1..(n - pos) |-> [args |-> <<Feature(pos + i)>>, scope |-> scope]]

CursorInit ==
    /\ total \in 0..MaxFeatures
    /\ cpos = 0
    /\ clog = <<>>
    /\ cscope = "none"
    /\ cop = "features"
    /\ cret = Undefined
    /\ cerr = NoError
    /\ cfresh = TRUE
    /\ cran = FALSE
    /\ cfull = FALSE
    /\ SchemaIdle /\ ShapeIdle /\ NormIdle /\ FactoryIdle

\* layer.features(): a new cursor
Features ==
    /\ cop # "features"
    /\ cpos' = 0
    /\ clog' = <<>>
    /\ cscope' = "none"
    /\ cop' = "features"
    /\ cret' = Undefined
    /\ cerr' = NoError
    /\ cfresh' = TRUE
    /\ cran' = FALSE
    /\ cfull' = FALSE
    /\ UNCHANGED <<total, notCursor>>

\* cursor.hasNext()
CursorHasNext ==
    /\ cop' = "hasNext"
    /\ cret' = HasNext(cpos, total)
    /\ cerr' = NoError
    /\ UNCHANGED <<total, cpos, clog, cscope, cfresh, cran, cfull, notCursor>>

\* cursor.next()
CursorNext ==
    /\ cop' = "next"
    /\ IF HasNext(cpos, total)
       THEN /\ cret' = Feature(cpos + 1)
            /\ cerr' = NoError
            /\ cpos' = cpos + 1
       ELSE /\ cret' = Undefined
            /\ cerr' = StopIteration
            /\ cpos' = cpos
    /\ cfresh' = FALSE
    /\ UNCHANGED <<total, clog, cscope, cran, cfull, notCursor>>

\* cursor.forEach(block, scope)
CursorForEach ==
    \E scope \in Scopes :
        /\ cop' = "forEach"
        /\ cscope' = scope
        /\ clog' = BlockCalls(cpos, total, scope)
        /\ cpos' = cpos + Len(BlockCalls(cpos, total, scope))
        /\ cret' = Undefined
        /\ cerr' = NoError
        /\ cfresh' = FALSE
        /\ cran' = TRUE
        /\ cfull' = cfresh
        /\ UNCHANGED <<total, notCursor>>

CursorSpecNext == Features \/ CursorHasNext \/ CursorNext \/ CursorForEach

CursorSpec == CursorInit /\ [][CursorSpecNext]_vars

(***************************************************************************)
(* Properties of the Schema wrapper.                                       *)
(***************************************************************************)
\* a value without the identities of its objects, two levels deep
Content(v) ==
    [k \in DOMAIN v \ {"ref"} |->
        IF k \in {"kind", "type"} THEN v[k]
        ELSE [j \in DOMAIN v[k] \ {"ref"} |-> v[k][j]]]

DeepEqual(a, b) == Content(a) = Content(b)

\* the fields of an override configuration
OverrideFields(config) ==
    IF Truthy(config) /\ Truthy(Get(config, "fields"))
    THEN Get(config, "fields").items ELSE <<>>

NamesOf(s) == {s[i].name : i \in 1..Len(s)}

\* [A,B,C] merged with [B',D] is [A,B',C,D]
ExpectedMerge(existing, override) ==
    [i \in 1..Len(existing) |->
        IF existing[i].name \in NamesOf(override)
        THEN FieldNew(CHOOSE f \in {override[j] : j \in 1..Len(override)} :
                        f.name = existing[i].name)
        ELSE existing[i]]
    \o SelectSeq([j \in 1..Len(override) |-> FieldNew(override[j])],
                 LAMBDA f : f.name \notin NamesOf(existing))

\* C1: the fields of clone(override) are the existing fields in their order,
\* each one replaced in place by the override field of the same name, then
\* the override fields whose names match no existing field, in override order
C1_CloneMerge ==
    op = "clone" =>
        /\ err = NoError
        /\ ret.built
        /\ ret.attrs = ExpectedMerge(schema.attrs, OverrideFields(arg))

\* the merge of C1 for override names that no object literal inherits
CloneMergeOwnNames ==
    (op = "clone" /\ NamesOf(OverrideFields(arg)) \cap ObjectPrototypeKeys = {})
    => (/\ err = NoError
        /\ ret.built
        /\ ret.attrs = ExpectedMerge(schema.attrs, OverrideFields(arg)))

\* C2: a present configuration whose normalised form has no fields value, or
\* one without forEach, makes the constructor throw the invalid-configuration
\* error with no engine call made and no feature type built
C2_FailFast ==
    (/\ op = "new"
     /\ pc \in {"built", "shell", "failed"}
     /\ Truthy(arg)
     /\ LET f == Get(prepConfig(arg), "fields")
        IN  f = Undefined \/ ~HasForEach(f))
    => (err = FieldsError /\ calls = <<>> /\ ~schema.built)

\* C2 happens: a configuration with a truthy fields value that cannot be
\* enumerated was rejected
C2_Witness ==
    /\ op = "new"
    /\ pc = "failed"
    /\ arg.kind = "object"
    /\ Get(arg, "fields") = JsString("a,b")
    /\ err = FieldsError

C3_OpacityRange ==
    [][(sop' = "set opacity" /\ sarg'.kind = "number") =>
        IF sarg'.num < 0 \/ sarg'.num > One
        THEN serr' = RangeMessage /\ UNCHANGED <<cache, made, props>>
        ELSE /\ serr' = NoError
             /\ HasSymbolizer(cache')
             /\ props'.opacity = sarg'.num]_vars

\* C3 happens: 1.5 was refused and the opacity set before, 0.5, is still there
C3_Witness ==
    /\ sop = "set opacity"
    /\ sarg = JsNumber(15)
    /\ serr = RangeMessage
    /\ HasSymbolizer(cache)
    /\ props.opacity = 5

\* C5: a read of _symbolizer returns the cached handle; the first read asks
\* the builder for it, and a read that follows a read returns the same handle
\* and asks the builder for nothing
C5_Memoized ==
    [][sop' = "_symbolizer" =>
        /\ HasSymbolizer(cache') /\ sret' = cache'["_symbolizer"]
        /\ ~HasSymbolizer(cache) => (made' = made + 1 /\ sret' = made')
        /\ sop = "_symbolizer" => (sret' = sret /\ made' = made)]_vars

\* C5 happens: two reads in a row on a wrapper whose cache was empty, one
\* symbolizer made
C5_Witness ==
    /\ streak = 2
    /\ made = 1
    /\ sret = 1

\* C9 as stated: on one wrapper, a cached symbolizer is never replaced
C9_NeverReplaced ==
    [][(HasSymbolizer(cache) /\ sop' # "new") => cache' = cache]_vars

\* C9: on one wrapper, a cached symbolizer is replaced only by an assignment
\* to _symbolizer, which caches the handle assigned
C9_ReplacedOnlyByAssignment ==
    [][/\ (HasSymbolizer(cache) /\ sop' \notin {"new", "set _symbolizer"})
            => cache' = cache
       /\ sop' = "set _symbolizer"
            => (HasSymbolizer(cache') /\ cache'["_symbolizer"] = sarg')]_vars

\* C9 happens: the wrapper was cloned, the builder made a second symbolizer
\* for the clone, and the wrapper still holds its first
C9_Witness ==
    /\ sop = "clone"
    /\ HasSymbolizer(cache)
    /\ cache["_symbolizer"] = 1
    /\ made = 2

(***************************************************************************)
(* Properties of the normalisers.                                          *)
(***************************************************************************)
IsFreshObject(out, in) == out.kind = "object" /\ out.ref \notin RefsOf(in)

\* the same properties with the same values, whatever the identity
ShallowCopy(out, in) ==
    /\ out.kind = "object"
    /\ DOMAIN out = DOMAIN in
    /\ \A k \in DOMAIN in \ {"ref"} : out[k] = in[k]

\* C7 as stated: both normalisers leave the caller's value alone and return
\* a new object: prepConfig {fields: input} for an array, both a shallow copy
\* that is not the caller's object for a mapping, the Shape constructor
\* {name: input} for a string
C7_AlwaysFresh ==
    (\/ ncall = "prepConfig" /\ nin.kind \in {"Array", "object"}
     \/ ncall = "Shape" /\ (nin.kind = "object" \/ (nin.kind = "string" /\ nin.text # "")))
    => /\ nafter = nin
       /\ IsFreshObject(nout, nin)
       /\ nin.kind = "Array" =>
            nout = [kind |-> "object", ref |-> nout.ref, fields |-> nin]
       /\ nin.kind = "object" => ShallowCopy(nout, nin)
       /\ nin.kind = "string" =>
            nout = [kind |-> "object", ref |-> nout.ref, name |-> nin]

\* C7: neither normaliser changes the caller's value.  prepConfig always
\* returns a new object: {fields: input} for an array, a shallow copy for a
\* mapping.  The Shape constructor makes a new {name: input} of a non-empty
\* string and hands every other value on as it is, the caller's own object
\* included
C7_Normalise ==
    /\ ncall # "none" => nafter = nin
    /\ ncall = "prepConfig" =>
        /\ IsFreshObject(nout, nin)
        /\ nin.kind = "Array" =>
            nout = [kind |-> "object", ref |-> nout.ref, fields |-> nin]
        /\ nin.kind = "object" => ShallowCopy(nout, nin)
    /\ ncall = "Shape" =>
        IF nin.kind = "string" /\ nin.text # ""
        THEN /\ IsFreshObject(nout, nin)
             /\ nout = [kind |-> "object", ref |-> nout.ref, name |-> nin]
        ELSE nout = nin

\* C7 happens: the Shape constructor handed on the caller's own mapping
C7_Witness ==
    /\ ncall = "Shape"
    /\ nin.kind = "object"
    /\ "opacity" \in DOMAIN nin
    /\ nout.ref = nin.ref

(***************************************************************************)
(* Properties of the registry and of the cursor.                           *)
(***************************************************************************)
\* C6: create instantiates the type of the earliest registered entry whose
\* handles accepts the configuration, whatever was created before; with no
\* such entry it fails with NoMatchingFactory
C6_FirstMatchWins ==
    fop = "create" =>
        LET hits == {i \in 1..Len(registry) : EntryHandles(registry[i], fconfig)}
        IN  IF hits = {}
            THEN fchosen = 0 /\ ftype = "none" /\ ferr = NoMatchingFactory
            ELSE /\ fchosen \in hits
                 /\ \A i \in hits : fchosen <= i
                 /\ ftype = registry[fchosen].type

\* C6 happens: two entries of different types accept the configuration and
\* the one registered first was instantiated
C6_Witness ==
    /\ fop = "create"
    /\ Len(registry) = MaxEntries
    /\ fchosen = 2
    /\ \E i \in 3..Len(registry) :
        /\ EntryHandles(registry[i], fconfig)
        /\ registry[i].type # registry[2].type

\* C10: a configuration the Schema factory's handles accepts passes the
\* constructor's check, so a Schema chosen by create never fails with the
\* fields error; a fields value that is no Array but has forEach is refused
\* by handles and accepted by the constructor
C10_HandlesImpliesConstructs ==
    /\ (fop = "create" /\ SchemaHandles(fconfig)) => SchemaNew(fconfig).err = NoError
    /\ (fop = "create" /\ ftype = "Schema") => ferr = NoError
    /\ (fop = "create" /\ Get(fconfig, "fields").kind = "ArrayLike") =>
        (~SchemaHandles(fconfig) /\ SchemaNew(fconfig).err = NoError)

\* C10 happens: create chose the Schema entry for an array given in place of
\* a configuration, and the schema was built
C10_Witness ==
    /\ fop = "create"
    /\ ftype = "Schema"
    /\ fconfig = JsArray(1, OneField)
    /\ ferr = NoError

\* C8: a new cursor over a layer with features has a next one; forEach on a
\* new cursor calls block once for each feature of the layer, with a Feature
\* and with the scope given; once forEach has returned hasNext is false and
\* next throws StopIteration
C8_CursorExhaustion ==
    /\ (cop = "hasNext" /\ cfresh /\ total > 0) => cret = TRUE
    /\ (cop = "forEach" /\ cfull) =>
        /\ Len(clog) = total
        /\ \A i \in 1..Len(clog) :
            /\ clog[i].args[1].kind = "Feature"
            /\ clog[i].scope = cscope
    /\ (cran /\ cop = "hasNext") => cret = FALSE
    /\ (cran /\ cop = "next") => cerr = StopIteration

\* C8 happens: forEach ran over all features of a new cursor and a later
\* next threw
C8_Witness ==
    /\ cran
    /\ cfull
    /\ cop = "next"
    /\ cerr = StopIteration
    /\ Len(clog) = MaxFeatures
    /\ total = MaxFeatures

====
